---- MODULE Spec2Model ----
(***************************************************************************)
(* Model of the learning-progress engine of src/src/App.js: question       *)
(* selection, answer evaluation, mastery / review / mistake tracking, the  *)
(* dictionary status map and their persistence in localStorage.            *)
(*                                                                         *)
(* React semantics that matter here:                                       *)
(*  - a handler reads the state of the render it was created in; the       *)
(*    setState calls of one handler are applied together, then the         *)
(*    component re-renders and the save effects whose dependency changed   *)
(*    (Object.is) run.  One action of the model is one handler plus that   *)
(*    render and its effects.                                              *)
(*  - the callback handed to setTimeout keeps the closure of the render in *)
(*    which it was created: it reads the correctList of that render.       *)
(* Strings are sequences of one-character strings.                         *)
(***************************************************************************)
EXTENDS Integers, Sequences, FiniteSets, TLC

\* ------------------------------------------------------------------ bounds
NumEntries == 2
MaxActions == 8
MaxInputLen == 3

\* ------------------------------------------------------- string primitives
Whitespace == {" ", "\t"}

toLowerCaseChar(c) ==
  CASE c = "A" -> "a"
    [] c = "B" -> "b"
    [] OTHER -> c

toLowerCase(s) == [i \in 1..Len(s) |-> toLowerCaseChar(s[i])]

\* s.replace(/\s+/g, "")
removeSpaces(s) == SelectSeq(s, LAMBDA c : c \notin Whitespace)

startsWith(s, p) == Len(p) <= Len(s) /\ SubSeq(s, 1, Len(p)) = p

\* String.prototype.includes
stringIncludes(s, sub) ==
  \E i \in 0..(Len(s) - Len(sub)) : SubSeq(s, i + 1, i + Len(sub)) = sub

\* Array.prototype.includes
arrayIncludes(list, x) == \E i \in 1..Len(list) : list[i] = x

Range(list) == {list[i] : i \in 1..Len(list)}

\* -------------------------------------------------------------- the catalog
\* Entries as produced by the CSV load: codes start with "0", are unique.
EntryPool ==
  << [code |-> <<"0", "1">>,           place |-> <<"A", " ", "b">>],
     [code |-> <<"0", "2">>,           place |-> <<"B", "a">>],
     [code |-> <<"0", "1", " ", "1">>, place |-> <<"A", "b">>],
     [code |-> <<"0", "1", "0">>,      place |-> <<"b", " ", "a">>] >>

uniqueCodes == SubSeq(EntryPool, 1, NumEntries)

Null == [code |-> <<>>, place |-> <<>>]

CodesOf(entries) == {entries[i].code : i \in 1..Len(entries)}

\* ------------------------------------------------------------ localStorage
KeyMode == "uk_codes_mode"
KeyAutoNext == "uk_codes_auto_next"
KeyShowDots == "uk_codes_show_dots"
KeyDictStatus == "uk_codes_dict_status"
KeyMastered == "uk_codes_mastered"
KeyReview == "uk_codes_review"
KeyMistakes == "uk_codes_mistakes"

StorageKeys ==
  {KeyMode, KeyAutoNext, KeyShowDots, KeyDictStatus, KeyMastered, KeyReview,
   KeyMistakes}

\* getItem returns null for an absent key
NoItem == [present |-> FALSE, text |-> <<>>]
Item(text) == [present |-> TRUE, text |-> text]

EmptyStorage == [k \in StorageKeys |-> NoItem]

setItem(ls, key, text) == [ls EXCEPT ![key] = Item(text)]
removeItem(ls, key) == [ls EXCEPT ![key] = NoItem]

\* JavaScript truthiness of what getItem returned (null and "" are falsy)
truthy(item) == item.present /\ item.text # <<>>

\* ------------------------------------------------------ JSON / number text
Digits == <<"0", "1", "2", "3", "4", "5", "6", "7", "8", "9">>
IsDigit(c) == \E d \in 1..10 : Digits[d] = c
DigitVal(c) == (CHOOSE d \in 1..10 : Digits[d] = c) - 1

\* parseInt gives NaN for text that does not start with a digit
NaN == -1

RECURSIVE numberToString(_)
numberToString(n) ==
  IF n < 0 THEN <<"N", "a", "N">>
  ELSE IF n < 10 THEN <<Digits[n + 1]>>
  ELSE Append(numberToString(n \div 10), Digits[(n % 10) + 1])

RECURSIVE parseDigits(_, _, _)
parseDigits(s, i, acc) ==
  IF i > Len(s) \/ ~IsDigit(s[i]) THEN acc
  ELSE parseDigits(s, i + 1, acc * 10 + DigitVal(s[i]))

\* parseInt(s, 10) on text without sign or leading blanks
parseInt(s) ==
  IF s = <<>> \/ ~IsDigit(s[1]) THEN NaN ELSE parseDigits(s, 1, 0)

\* prev + 1 of setMistakeCount((prev) => prev + 1)
increment(prev) == IF prev = NaN THEN NaN ELSE prev + 1

TextTrue == <<"t", "r", "u", "e">>
TextFalse == <<"f", "a", "l", "s", "e">>

stringifyBool(b) == IF b THEN TextTrue ELSE TextFalse
parseBool(t) == t = TextTrue

quote(s) == <<"\"">> \o s \o <<"\"">>

RECURSIVE joinQuoted(_)
joinQuoted(list) ==
  IF list = <<>> THEN <<>>
  ELSE IF Len(list) = 1 THEN quote(list[1])
  ELSE quote(list[1]) \o <<",">> \o joinQuoted(Tail(list))

\* JSON.stringify of an array of strings
stringifyArray(list) == <<"[">> \o joinQuoted(list) \o <<"]">>

RECURSIVE parseArrayFrom(_, _, _, _, _)
parseArrayFrom(t, i, inStr, cur, acc) ==
  IF i > Len(t) THEN acc
  ELSE IF t[i] = "\"" THEN
    IF inStr THEN parseArrayFrom(t, i + 1, FALSE, <<>>, Append(acc, cur))
    ELSE parseArrayFrom(t, i + 1, TRUE, <<>>, acc)
  ELSE IF inStr THEN parseArrayFrom(t, i + 1, TRUE, Append(cur, t[i]), acc)
  ELSE parseArrayFrom(t, i + 1, FALSE, cur, acc)

\* JSON.parse of the text of an array of strings
parseArray(t) == parseArrayFrom(t, 1, FALSE, <<>>, <<>>)

\* an object is a function from the codes it has as keys to numbers
EmptyObject == [c \in {} |-> 0]

objectSet(obj, key, val) ==
  [c \in (DOMAIN obj) \cup {key} |-> IF c = key THEN val ELSE obj[c]]

RECURSIVE joinMembers(_, _)
joinMembers(obj, keys) ==
  IF keys = <<>> THEN <<>>
  ELSE LET k == keys[1]
           member == quote(k) \o <<":">> \o numberToString(obj[k])
       IN IF Len(keys) = 1 THEN member
          ELSE member \o <<",">> \o joinMembers(obj, Tail(keys))

\* JSON.stringify of the status object (members listed in catalog order)
stringifyObject(obj) ==
  LET keys == SelectSeq([i \in 1..Len(EntryPool) |-> EntryPool[i].code],
                        LAMBDA c : c \in DOMAIN obj)
  IN <<"{">> \o joinMembers(obj, keys) \o <<"}">>

RECURSIVE parseObjectFrom(_, _, _, _, _, _)
parseObjectFrom(t, i, inStr, cur, key, obj) ==
  IF i > Len(t) THEN obj
  ELSE IF t[i] = "\"" THEN
    IF inStr THEN parseObjectFrom(t, i + 1, FALSE, <<>>, cur, obj)
    ELSE parseObjectFrom(t, i + 1, TRUE, <<>>, key, obj)
  ELSE IF inStr THEN
    parseObjectFrom(t, i + 1, TRUE, Append(cur, t[i]), key, obj)
  ELSE IF IsDigit(t[i]) THEN
    parseObjectFrom(t, i + 1, FALSE, cur, key,
                    objectSet(obj, key, DigitVal(t[i])))
  ELSE parseObjectFrom(t, i + 1, FALSE, cur, key, obj)

\* JSON.parse of the text of the status object
parseObject(t) == parseObjectFrom(t, 1, FALSE, <<>>, <<>>, EmptyObject)

\* JSON.parse throws a SyntaxError on text that is not JSON.  The texts that
\* occur are the ones the save effects write (booleans, numbers, arrays of
\* strings, the status object) and texts that are no JSON at all.
isArrayText(t) == t = stringifyArray(parseArray(t))
isObjectText(t) == t = stringifyObject(parseObject(t))
isBoolText(t) == t \in {TextTrue, TextFalse}
isNumberText(t) == t # <<>> /\ \A i \in 1..Len(t) : IsDigit(t[i])

jsonParseThrows(t) ==
  ~(isArrayText(t) \/ isObjectText(t) \/ isBoolText(t) \/ isNumberText(t))

\* ---------------------------------------------------- startup load rules
loadMode(ls) ==
  IF truthy(ls[KeyMode]) THEN ls[KeyMode].text[1] ELSE "nameToCode"

loadAutoNext(ls) ==
  parseBool(IF truthy(ls[KeyAutoNext]) THEN ls[KeyAutoNext].text ELSE TextTrue)

loadShowAllDots(ls) ==
  parseBool(IF truthy(ls[KeyShowDots]) THEN ls[KeyShowDots].text ELSE TextTrue)

loadDictStatus(ls) ==
  IF truthy(ls[KeyDictStatus]) THEN parseObject(ls[KeyDictStatus].text)
  ELSE EmptyObject

loadCorrectList(ls) ==
  IF truthy(ls[KeyMastered]) THEN parseArray(ls[KeyMastered].text) ELSE <<>>

loadReviewList(ls) ==
  IF truthy(ls[KeyReview]) THEN parseArray(ls[KeyReview].text) ELSE <<>>

loadMistakeCount(ls) ==
  IF truthy(ls[KeyMistakes]) THEN parseInt(ls[KeyMistakes].text) ELSE 0

\* the keys whose initialiser calls JSON.parse on a truthy stored text
ParsedKeys == {KeyAutoNext, KeyShowDots, KeyDictStatus, KeyMastered, KeyReview}

\* one of the useState initialisers throws: the first render fails
startupThrows(ls) ==
  \E k \in ParsedKeys : truthy(ls[k]) /\ jsonParseThrows(ls[k].text)

\* ------------------------------------------------------------ save effects
saveMastered(ls, list) == setItem(ls, KeyMastered, stringifyArray(list))
saveReview(ls, list) == setItem(ls, KeyReview, stringifyArray(list))
saveMistakes(ls, n) == setItem(ls, KeyMistakes, numberToString(n))
saveDictStatus(ls, obj) == setItem(ls, KeyDictStatus, stringifyObject(obj))
saveMode(ls, m) == setItem(ls, KeyMode, <<m>>)
saveAutoNext(ls, b) == setItem(ls, KeyAutoNext, stringifyBool(b))
saveShowDots(ls, b) == setItem(ls, KeyShowDots, stringifyBool(b))

\* ------------------------------------------------------------------- state
VARIABLES
  loading,          \* useState(true): the CSV has not been parsed yet
  areaCodes,        \* useState([]): the catalog
  appSection,       \* "GAME" | "DICTIONARY"
  mode,             \* "nameToCode" | "codeToName"
  currentQuestion,  \* an entry or Null
  userInput,        \* text of the answer field
  feedback,         \* [msg, arg]: the feedback line
  autoNext,
  shouldZoom,
  showAllDots,
  searchTerm,       \* text of the dictionary search field
  dictStatus,       \* object code -> 0..2
  correctList,      \* array of mastered codes
  reviewList,       \* array of codes to review
  mistakeCount,
  localStorage,     \* key -> NoItem | Item(text)
  timers,           \* pending setTimeout(() => generateQuestion(), 1000)
                    \* callbacks, oldest first; each is the correctList its
                    \* closure captured
  crashed,          \* a useState initialiser threw: nothing is rendered
  lastAction,       \* history: name of the handler that ran last
  actionCount       \* history: number of events handled so far

vars ==
  <<loading, areaCodes, appSection, mode, currentQuestion, userInput,
    feedback, autoNext, shouldZoom, showAllDots, searchTerm, dictStatus,
    correctList, reviewList, mistakeCount, localStorage, timers, crashed,
    lastAction, actionCount>>

Modes == {"nameToCode", "codeToName"}
Sections == {"GAME", "DICTIONARY"}

MsgNone == ""
MsgCorrect == "Correct!"
MsgCorrectSelect == "Correct! Select next location on map."
MsgIncorrect == "Incorrect. Try again!"
MsgMasteredAll == "You have mastered EVERY UK code!"
MsgAnswerIs == "The answer is: "

Feedback(msg, arg) == [msg |-> msg, arg |-> arg]

\* what the learner types into the answer field in the quiz model
TypedInputs == {<<>>, <<"1">>, <<"2">>, <<"b">>}

\* every event handled is counted, and the model stops at MaxActions events
Counted == actionCount < MaxActions /\ actionCount' = actionCount + 1

\* handlers exist only while the component is rendered
Mounted == ~crashed /\ crashed' = crashed

\* ---------------------------------------------------------- construction
\* The useState initialisers read localStorage; after the first render every
\* save effect runs once and writes the loaded value back.
savedAll(ls, m, an, sd, ds, cl, rl, mc) ==
  saveShowDots(
    saveAutoNext(
      saveMode(
        saveDictStatus(
          saveMistakes(saveReview(saveMastered(ls, cl), rl), mc), ds), m),
      an), sd)

mountStorage(ls) ==
  savedAll(ls, loadMode(ls), loadAutoNext(ls), loadShowAllDots(ls),
           loadDictStatus(ls), loadCorrectList(ls), loadReviewList(ls),
           loadMistakeCount(ls))

Init ==
  /\ loading = TRUE
  /\ areaCodes = <<>>
  /\ appSection = "GAME"
  /\ mode = loadMode(EmptyStorage)
  /\ currentQuestion = Null
  /\ userInput = <<>>
  /\ feedback = Feedback(MsgNone, <<>>)
  /\ autoNext = loadAutoNext(EmptyStorage)
  /\ shouldZoom = FALSE
  /\ showAllDots = loadShowAllDots(EmptyStorage)
  /\ searchTerm = <<>>
  /\ dictStatus = loadDictStatus(EmptyStorage)
  /\ correctList = loadCorrectList(EmptyStorage)
  /\ reviewList = loadReviewList(EmptyStorage)
  /\ mistakeCount = loadMistakeCount(EmptyStorage)
  /\ localStorage = mountStorage(EmptyStorage)
  /\ timers = <<>>
  /\ crashed = startupThrows(EmptyStorage)
  /\ lastAction = "mount"
  /\ actionCount = 0

\* Reloading the page: every state is rebuilt from localStorage, pending
\* timers die with the page.  When an initialiser throws nothing is rendered
\* and no effect runs.
Reload ==
  /\ Counted
  /\ crashed' = startupThrows(localStorage)
  /\ loading' = TRUE
  /\ areaCodes' = <<>>
  /\ appSection' = "GAME"
  /\ currentQuestion' = Null
  /\ userInput' = <<>>
  /\ feedback' = Feedback(MsgNone, <<>>)
  /\ shouldZoom' = FALSE
  /\ searchTerm' = <<>>
  /\ timers' = <<>>
  /\ lastAction' = "mount"
  /\ IF startupThrows(localStorage)
     THEN /\ mode' = "nameToCode"
          /\ autoNext' = TRUE
          /\ showAllDots' = TRUE
          /\ dictStatus' = EmptyObject
          /\ correctList' = <<>>
          /\ reviewList' = <<>>
          /\ mistakeCount' = 0
          /\ UNCHANGED localStorage
     ELSE /\ mode' = loadMode(localStorage)
          /\ autoNext' = loadAutoNext(localStorage)
          /\ showAllDots' = loadShowAllDots(localStorage)
          /\ dictStatus' = loadDictStatus(localStorage)
          /\ correctList' = loadCorrectList(localStorage)
          /\ reviewList' = loadReviewList(localStorage)
          /\ mistakeCount' = loadMistakeCount(localStorage)
          /\ localStorage' = mountStorage(localStorage)

\* localStorage is shared with whatever else writes to the origin: a stored
\* value is replaced by text that is not what the save effects write.
CorruptTexts(key) == IF key = KeyMode THEN {<<"garbage">>} ELSE {<<"x">>, <<"[">>}

CorruptStorage ==
  /\ Counted
  /\ \E key \in StorageKeys : \E text \in CorruptTexts(key) :
       localStorage' = setItem(localStorage, key, text)
  /\ lastAction' = "storageCorrupted"
  /\ UNCHANGED <<searchTerm, loading, areaCodes, appSection, mode,
                 currentQuestion, userInput, feedback, autoNext, shouldZoom,
                 showAllDots, dictStatus, correctList, reviewList,
                 mistakeCount, timers, crashed>>

\* ------------------------------------------------------------- game logic
\* generateQuestion with setShouldZoom(true) on the explicit branch too
generateQuestionZoomsAlways(specificPlace, codes, list) ==
  /\ userInput' = <<>>
  /\ IF specificPlace # Null
     THEN /\ feedback' = Feedback(MsgNone, <<>>)
          /\ currentQuestion' = specificPlace
          /\ shouldZoom' = TRUE
     ELSE LET pending ==
                SelectSeq(codes, LAMBDA item : ~arrayIncludes(list, item.code))
          IN IF Len(pending) = 0
             THEN /\ feedback' = Feedback(MsgMasteredAll, <<>>)
                  /\ currentQuestion' = Null
                  /\ UNCHANGED shouldZoom
             ELSE /\ feedback' = Feedback(MsgNone, <<>>)
                  /\ \E i \in 1..Len(pending) : currentQuestion' = pending[i]
                  /\ shouldZoom' = TRUE

\* generateQuestion(specificPlace) run in a closure whose areaCodes is
\* `codes` and whose correctList is `list`.
generateQuestion(specificPlace, codes, list) ==
  /\ userInput' = <<>>
  /\ IF specificPlace # Null
     THEN /\ feedback' = Feedback(MsgNone, <<>>)
          /\ currentQuestion' = specificPlace
          /\ shouldZoom' = FALSE
     ELSE LET pending ==
                SelectSeq(codes, LAMBDA item : ~arrayIncludes(list, item.code))
          IN IF Len(pending) = 0
             THEN /\ feedback' = Feedback(MsgMasteredAll, <<>>)
                  /\ currentQuestion' = Null
                  /\ UNCHANGED shouldZoom
             ELSE /\ feedback' = Feedback(MsgNone, <<>>)
                  /\ \E i \in 1..Len(pending) : currentQuestion' = pending[i]
                  /\ shouldZoom' = TRUE

\* The effect on [loading, areaCodes, appSection], run in the render whose
\* section is `section`, whose catalog is `codes`.
initialQuestionEffect(section, codes) ==
  IF section = "GAME" /\ Len(codes) > 0 /\ currentQuestion = Null
  THEN generateQuestion(Null, codes, correctList)
  ELSE UNCHANGED <<userInput, feedback, currentQuestion, shouldZoom>>

\* Papa.parse complete callback, then the initial-question effect
csvComplete ==
  /\ Mounted
  /\ loading
  /\ loading' = FALSE
  /\ areaCodes' = uniqueCodes
  /\ initialQuestionEffect(appSection, uniqueCodes)
  /\ lastAction' = "csvLoaded"
  /\ UNCHANGED <<searchTerm, appSection, mode, autoNext, showAllDots,
                 dictStatus, correctList, reviewList, mistakeCount,
                 localStorage, timers>>

\* the CSV arrives, as one counted event
CsvLoaded == Counted /\ csvComplete

\* addToReviewList that forgets the spread of the old list
addToReviewListReplaces(list, code) ==
  IF ~arrayIncludes(list, code) THEN <<code>> ELSE list

\* addToReviewList without the includes test
addToReviewListAlways(list, code) == Append(list, code)

\* addToReviewList with its test inverted
addToReviewListInverted(list, code) ==
  IF arrayIncludes(list, code) THEN Append(list, code) ELSE list

addToReviewList(list, code) ==
  IF ~arrayIncludes(list, code) THEN Append(list, code) ELSE list

\* the judgement without the leading-zero leniency
isCorrectNoLeadingZero(m, question, input) ==
  LET inputClean == toLowerCase(removeSpaces(input))
  IN IF m = "nameToCode"
     THEN inputClean = toLowerCase(removeSpaces(question.code))
     ELSE stringIncludes(toLowerCase(question.place), inputClean)

\* the judgement computed at the top of handleSubmit
isCorrect(m, question, input) ==
  LET inputClean == toLowerCase(removeSpaces(input))
  IN IF m = "nameToCode"
     THEN LET answerClean == toLowerCase(removeSpaces(question.code))
              withZero == IF ~startsWith(inputClean, <<"0">>)
                          THEN <<"0">> \o inputClean
                          ELSE inputClean
          IN withZero = answerClean
     ELSE stringIncludes(toLowerCase(question.place), inputClean)

\* handleSubmit past its guard, without the setTimeout call
submitAnswerNeverSchedules ==
  /\ lastAction' = "handleSubmit"
  /\ IF isCorrect(mode, currentQuestion, userInput)
     THEN /\ correctList' =
               IF ~arrayIncludes(correctList, currentQuestion.code)
               THEN Append(correctList, currentQuestion.code)
               ELSE correctList
          /\ localStorage' =
               IF ~arrayIncludes(correctList, currentQuestion.code)
               THEN saveMastered(localStorage, correctList')
               ELSE localStorage
          /\ IF autoNext
             THEN /\ feedback' = Feedback(MsgCorrect, <<>>)
                  /\ UNCHANGED timers
             ELSE /\ feedback' = Feedback(MsgCorrectSelect, <<>>)
                  /\ UNCHANGED timers
          /\ UNCHANGED <<mistakeCount, reviewList>>
     ELSE /\ feedback' = Feedback(MsgIncorrect, <<>>)
          /\ mistakeCount' = increment(mistakeCount)
          /\ reviewList' = addToReviewList(reviewList, currentQuestion.code)
          /\ localStorage' =
               LET ls == saveMistakes(localStorage, mistakeCount')
               IN IF reviewList' # reviewList
                  THEN saveReview(ls, reviewList')
                  ELSE ls
          /\ UNCHANGED <<correctList, timers>>
  /\ UNCHANGED <<searchTerm, loading, areaCodes, appSection, mode,
                 currentQuestion, userInput, autoNext, shouldZoom,
                 showAllDots, dictStatus>>

\* handleSubmit past its guard: judge the input, record the outcome
submitAnswer ==
  /\ lastAction' = "handleSubmit"
  /\ IF isCorrect(mode, currentQuestion, userInput)
     THEN /\ correctList' =
               IF ~arrayIncludes(correctList, currentQuestion.code)
               THEN Append(correctList, currentQuestion.code)
               ELSE correctList
          /\ localStorage' =
               IF ~arrayIncludes(correctList, currentQuestion.code)
               THEN saveMastered(localStorage, correctList')
               ELSE localStorage
          /\ IF autoNext
             THEN /\ feedback' = Feedback(MsgCorrect, <<>>)
                  /\ timers' = Append(timers, correctList)
             ELSE /\ feedback' = Feedback(MsgCorrectSelect, <<>>)
                  /\ UNCHANGED timers
          /\ UNCHANGED <<mistakeCount, reviewList>>
     ELSE /\ feedback' = Feedback(MsgIncorrect, <<>>)
          /\ mistakeCount' = increment(mistakeCount)
          /\ reviewList' = addToReviewList(reviewList, currentQuestion.code)
          /\ localStorage' =
               LET ls == saveMistakes(localStorage, mistakeCount')
               IN IF reviewList' # reviewList
                  THEN saveReview(ls, reviewList')
                  ELSE ls
          /\ UNCHANGED <<correctList, timers>>
  /\ UNCHANGED <<searchTerm, loading, areaCodes, appSection, mode,
                 currentQuestion, userInput, autoNext, shouldZoom,
                 showAllDots, dictStatus>>

\* handleSubmit without `if (!currentQuestion) return;`
handleSubmitUnguarded == submitAnswer

handleSubmit ==
  IF currentQuestion = Null
  THEN /\ lastAction' = "handleSubmit"
       /\ UNCHANGED <<searchTerm, loading, areaCodes, appSection, mode,
                      currentQuestion, userInput, feedback, autoNext,
                      shouldZoom, showAllDots, dictStatus, correctList,
                      reviewList, mistakeCount, localStorage, timers>>
  ELSE submitAnswer

\* the quiz form is rendered in the GAME section while a question is active
SubmitForm ==
  /\ Counted
  /\ Mounted
  /\ ~loading
  /\ appSection = "GAME"
  /\ currentQuestion # Null
  /\ handleSubmit

\* onChange of the answer field, the learner typing one of `texts`
changeUserInput(texts) ==
  /\ Mounted
  /\ ~loading
  /\ appSection = "GAME"
  /\ currentQuestion # Null
  /\ \E text \in texts : userInput' = text
  /\ lastAction' = "setUserInput"
  /\ UNCHANGED <<searchTerm, loading, areaCodes, appSection, mode,
                 currentQuestion, feedback, autoNext, shouldZoom,
                 showAllDots, dictStatus, correctList, reviewList,
                 mistakeCount, localStorage, timers>>

SetUserInput == Counted /\ changeUserInput(TypedInputs)

\* the Skip button: onClick={() => generateQuestion()}
Skip ==
  /\ Counted
  /\ Mounted
  /\ ~loading
  /\ appSection = "GAME"
  /\ currentQuestion # Null
  /\ autoNext
  /\ generateQuestion(Null, areaCodes, correctList)
  /\ lastAction' = "skip"
  /\ UNCHANGED <<searchTerm, loading, areaCodes, appSection, mode, autoNext,
                 showAllDots, dictStatus, correctList, reviewList,
                 mistakeCount, localStorage, timers>>

\* a pending setTimeout callback fires: generateQuestion() of the render
\* that scheduled it
timerFires ==
  /\ Mounted
  /\ timers # <<>>
  /\ generateQuestion(Null, areaCodes, Head(timers))
  /\ timers' = Tail(timers)
  /\ lastAction' = "autoAdvance"
  /\ UNCHANGED <<searchTerm, loading, areaCodes, appSection, mode, autoNext,
                 showAllDots, dictStatus, correctList, reviewList,
                 mistakeCount, localStorage>>

AutoAdvance == Counted /\ timerFires

\* click on a map marker: generateQuestion(location).  In the GAME section a
\* mastered marker is not rendered while showAllDots is off.
MapClick ==
  /\ Counted
  /\ Mounted
  /\ ~loading
  /\ \E i \in 1..Len(areaCodes) :
       /\ ~(appSection = "GAME" /\ ~showAllDots
            /\ arrayIncludes(correctList, areaCodes[i].code))
       /\ generateQuestion(areaCodes[i], areaCodes, correctList)
  /\ lastAction' = "mapClick"
  /\ UNCHANGED <<searchTerm, loading, areaCodes, appSection, mode, autoNext,
                 showAllDots, dictStatus, correctList, reviewList,
                 mistakeCount, localStorage, timers>>

\* revealAnswer that also marks the revealed code as mastered
revealAnswerMasters ==
  /\ mistakeCount' = increment(mistakeCount)
  /\ reviewList' = addToReviewList(reviewList, currentQuestion.code)
  /\ correctList' =
       IF ~arrayIncludes(correctList, currentQuestion.code)
       THEN Append(correctList, currentQuestion.code)
       ELSE correctList
  /\ feedback' =
       Feedback(MsgAnswerIs,
                IF mode = "nameToCode" THEN currentQuestion.code
                ELSE currentQuestion.place)
  /\ localStorage' =
       LET ls == saveMastered(saveMistakes(localStorage, mistakeCount'),
                              correctList')
       IN IF reviewList' # reviewList THEN saveReview(ls, reviewList') ELSE ls
  /\ lastAction' = "revealAnswer"
  /\ UNCHANGED <<searchTerm, loading, areaCodes, appSection, mode,
                 currentQuestion, userInput, autoNext, shouldZoom,
                 showAllDots, dictStatus, timers>>

\* revealAnswer showing the wrong side of the entry
revealAnswerSwapped ==
  /\ mistakeCount' = increment(mistakeCount)
  /\ reviewList' = addToReviewList(reviewList, currentQuestion.code)
  /\ feedback' =
       Feedback(MsgAnswerIs,
                IF mode = "nameToCode" THEN currentQuestion.place
                ELSE currentQuestion.code)
  /\ localStorage' =
       LET ls == saveMistakes(localStorage, mistakeCount')
       IN IF reviewList' # reviewList THEN saveReview(ls, reviewList') ELSE ls
  /\ lastAction' = "revealAnswer"
  /\ UNCHANGED <<searchTerm, loading, areaCodes, appSection, mode,
                 currentQuestion, userInput, autoNext, shouldZoom,
                 showAllDots, dictStatus, correctList, timers>>

revealAnswer ==
  /\ mistakeCount' = increment(mistakeCount)
  /\ reviewList' = addToReviewList(reviewList, currentQuestion.code)
  /\ feedback' =
       Feedback(MsgAnswerIs,
                IF mode = "nameToCode" THEN currentQuestion.code
                ELSE currentQuestion.place)
  /\ localStorage' =
       LET ls == saveMistakes(localStorage, mistakeCount')
       IN IF reviewList' # reviewList THEN saveReview(ls, reviewList') ELSE ls
  /\ lastAction' = "revealAnswer"
  /\ UNCHANGED <<searchTerm, loading, areaCodes, appSection, mode,
                 currentQuestion, userInput, autoNext, shouldZoom,
                 showAllDots, dictStatus, correctList, timers>>

\* the Give Up & Reveal button is rendered while a question is active
Reveal ==
  /\ Counted
  /\ Mounted
  /\ ~loading
  /\ appSection = "GAME"
  /\ currentQuestion # Null
  /\ revealAnswer

\* resetProgress without setReviewList([])
resetProgressKeepsReview ==
  /\ correctList' = <<>>
  /\ reviewList' = reviewList
  /\ mistakeCount' = 0
  /\ localStorage' =
       LET removed ==
             removeItem(removeItem(removeItem(localStorage, KeyMastered),
                                   KeyReview), KeyMistakes)
           lists == saveReview(saveMastered(removed, <<>>), reviewList)
       IN IF mistakeCount # 0 THEN saveMistakes(lists, 0) ELSE lists
  /\ generateQuestion(Null, areaCodes, correctList)
  /\ lastAction' = "resetProgress"
  /\ UNCHANGED <<searchTerm, loading, areaCodes, appSection, mode, autoNext,
                 showAllDots, dictStatus, timers>>

\* resetProgress that also removes the dictionary status key
resetProgressRemovesDictKey ==
  /\ correctList' = <<>>
  /\ reviewList' = <<>>
  /\ mistakeCount' = 0
  /\ localStorage' =
       LET removed ==
             removeItem(
               removeItem(removeItem(removeItem(localStorage, KeyMastered),
                                     KeyReview), KeyMistakes),
               KeyDictStatus)
           lists == saveReview(saveMastered(removed, <<>>), <<>>)
       IN IF mistakeCount # 0 THEN saveMistakes(lists, 0) ELSE lists
  /\ generateQuestion(Null, areaCodes, correctList)
  /\ lastAction' = "resetProgress"
  /\ UNCHANGED <<searchTerm, loading, areaCodes, appSection, mode, autoNext,
                 showAllDots, dictStatus, timers>>

\* window.confirm answered OK: the three setters, the three removeItem, then
\* generateQuestion() of the current render; afterwards the save effects of
\* the states that changed run (a fresh [] always differs from the old
\* array, 0 differs from mistakeCount only when that was not 0).
resetProgress ==
  /\ correctList' = <<>>
  /\ reviewList' = <<>>
  /\ mistakeCount' = 0
  /\ localStorage' =
       LET removed ==
             removeItem(removeItem(removeItem(localStorage, KeyMastered),
                                   KeyReview), KeyMistakes)
           lists == saveReview(saveMastered(removed, <<>>), <<>>)
       IN IF mistakeCount # 0 THEN saveMistakes(lists, 0) ELSE lists
  /\ generateQuestion(Null, areaCodes, correctList)
  /\ lastAction' = "resetProgress"
  /\ UNCHANGED <<searchTerm, loading, areaCodes, appSection, mode, autoNext,
                 showAllDots, dictStatus, timers>>

\* the Reset Game Progress button; a declined confirm changes nothing
Reset ==
  /\ Counted
  /\ Mounted
  /\ ~loading
  /\ appSection = "GAME"
  /\ \E confirmed \in BOOLEAN :
       IF confirmed THEN resetProgress
       ELSE /\ lastAction' = "resetDeclined"
            /\ UNCHANGED <<searchTerm, loading, areaCodes, appSection, mode,
                           currentQuestion, userInput, feedback, autoNext,
                           shouldZoom, showAllDots, dictStatus, correctList,
                           reviewList, mistakeCount, localStorage, timers>>

\* -------------------------------------------------------- dictionary logic
\* dictStatus[code] || 0
statusOf(obj, code) ==
  IF code \in DOMAIN obj /\ obj[code] # 0 THEN obj[code] ELSE 0

\* the status object without the wrap-around of the next status
cycledNoWrap(obj, code) == objectSet(obj, code, statusOf(obj, code) + 1)

\* { ...prev, [code]: nextStatus }
cycled(obj, code) == objectSet(obj, code, (statusOf(obj, code) + 1) % 3)

\* cycleStatus without e.stopPropagation(): the click also reaches the row
cycleStatusPropagates(code) ==
  /\ dictStatus' = cycled(dictStatus, code)
  /\ localStorage' = saveDictStatus(localStorage, dictStatus')
  /\ currentQuestion' =
       CHOOSE location \in Range(areaCodes) : location.code = code
  /\ shouldZoom' = TRUE
  /\ lastAction' = "cycleStatus"
  /\ UNCHANGED <<searchTerm, loading, areaCodes, appSection, mode, userInput,
                 feedback, autoNext, showAllDots, correctList, reviewList,
                 mistakeCount, timers>>

cycleStatus(code) ==
  /\ dictStatus' = cycled(dictStatus, code)
  /\ localStorage' = saveDictStatus(localStorage, dictStatus')
  /\ lastAction' = "cycleStatus"
  /\ UNCHANGED <<searchTerm, loading, areaCodes, appSection, mode,
                 currentQuestion, userInput, feedback, autoNext, shouldZoom,
                 showAllDots, correctList, reviewList, mistakeCount, timers>>

\* filteredDictionary with only the place lower-cased
filteredDictionaryCaseSensitive(codes, term) ==
  SelectSeq(codes,
            LAMBDA item :
              \/ stringIncludes(toLowerCase(item.place), term)
              \/ stringIncludes(removeSpaces(item.code), term))

\* the rows of the dictionary list
filteredDictionary(codes, term) ==
  SelectSeq(codes,
            LAMBDA item :
              \/ stringIncludes(toLowerCase(item.place), toLowerCase(term))
              \/ stringIncludes(removeSpaces(item.code), term))

\* what the learner types into the search field in the quiz model
SearchInputs == {<<>>, <<"B">>, <<"2">>}

\* onChange of the search field
SetSearchTerm ==
  /\ Counted
  /\ Mounted
  /\ ~loading
  /\ appSection = "DICTIONARY"
  /\ \E text \in SearchInputs : searchTerm' = text
  /\ lastAction' = "setSearchTerm"
  /\ UNCHANGED <<loading, areaCodes, appSection, mode, currentQuestion,
                 userInput, feedback, autoNext, shouldZoom, showAllDots,
                 dictStatus, correctList, reviewList, mistakeCount,
                 localStorage, timers>>

\* the status button of a dictionary row
CycleStatus ==
  /\ Counted
  /\ Mounted
  /\ ~loading
  /\ appSection = "DICTIONARY"
  /\ LET rows == filteredDictionary(areaCodes, searchTerm)
     IN \E i \in 1..Len(rows) : cycleStatus(rows[i].code)

jumpToLocation(location) ==
  /\ currentQuestion' = location
  /\ shouldZoom' = TRUE
  /\ lastAction' = "jumpToLocation"
  /\ UNCHANGED <<searchTerm, loading, areaCodes, appSection, mode, userInput,
                 feedback, autoNext, showAllDots, dictStatus, correctList,
                 reviewList, mistakeCount, localStorage, timers>>

\* click on a dictionary row
JumpToLocation ==
  /\ Counted
  /\ Mounted
  /\ ~loading
  /\ appSection = "DICTIONARY"
  /\ LET rows == filteredDictionary(areaCodes, searchTerm)
     IN \E i \in 1..Len(rows) : jumpToLocation(rows[i])

\* ---------------------------------------------------------------- settings
SetMode ==
  /\ Counted
  /\ Mounted
  /\ ~loading
  /\ appSection = "GAME"
  /\ \E m \in Modes :
       /\ mode' = m
       /\ localStorage' =
            IF m # mode THEN saveMode(localStorage, m) ELSE localStorage
  /\ lastAction' = "setMode"
  /\ UNCHANGED <<searchTerm, loading, areaCodes, appSection, currentQuestion,
                 userInput, feedback, autoNext, shouldZoom, showAllDots,
                 dictStatus, correctList, reviewList, mistakeCount, timers>>

SetAutoNext ==
  /\ Counted
  /\ Mounted
  /\ ~loading
  /\ appSection = "GAME"
  /\ autoNext' = ~autoNext
  /\ localStorage' = saveAutoNext(localStorage, autoNext')
  /\ lastAction' = "setAutoNext"
  /\ UNCHANGED <<searchTerm, loading, areaCodes, appSection, mode,
                 currentQuestion, userInput, feedback, shouldZoom,
                 showAllDots, dictStatus, correctList, reviewList,
                 mistakeCount, timers>>

SetShowAllDots ==
  /\ Counted
  /\ Mounted
  /\ ~loading
  /\ appSection = "GAME"
  /\ showAllDots' = ~showAllDots
  /\ localStorage' = saveShowDots(localStorage, showAllDots')
  /\ lastAction' = "setShowAllDots"
  /\ UNCHANGED <<searchTerm, loading, areaCodes, appSection, mode,
                 currentQuestion, userInput, feedback, autoNext, shouldZoom,
                 dictStatus, correctList, reviewList, mistakeCount, timers>>

\* the Play / Dictionary buttons, then the initial-question effect when the
\* section changed
SetAppSection ==
  /\ Counted
  /\ Mounted
  /\ ~loading
  /\ \E section \in Sections :
       /\ appSection' = section
       /\ IF section # appSection
          THEN initialQuestionEffect(section, areaCodes)
          ELSE UNCHANGED <<userInput, feedback, currentQuestion, shouldZoom>>
  /\ lastAction' = "setAppSection"
  /\ UNCHANGED <<searchTerm, loading, areaCodes, mode, autoNext, showAllDots,
                 dictStatus, correctList, reviewList, mistakeCount,
                 localStorage, timers>>

Next ==
  \/ CsvLoaded
  \/ SubmitForm
  \/ SetUserInput
  \/ Skip
  \/ AutoAdvance
  \/ MapClick
  \/ Reveal
  \/ Reset
  \/ CycleStatus
  \/ JumpToLocation
  \/ SetSearchTerm
  \/ SetMode
  \/ SetAutoNext
  \/ SetShowAllDots
  \/ SetAppSection
  \/ Reload

Spec == Init /\ [][Next]_vars

\* ---------------------------------------------- answer evaluation alone
\* handleSubmit applied to every question of the pool and every text of at
\* most MaxInputLen characters, in both modes.
InputAlphabet == {"0", "1", "2", "A", "b", " ", "\t"}

InputTexts == UNION {[1..n -> InputAlphabet] : n \in 0..MaxInputLen}

EvalInit ==
  /\ loading = FALSE
  /\ areaCodes = EntryPool
  /\ appSection = "GAME"
  /\ mode \in Modes
  /\ currentQuestion \in Range(EntryPool)
  /\ userInput \in InputTexts
  /\ feedback = Feedback(MsgNone, <<>>)
  /\ autoNext \in BOOLEAN
  /\ shouldZoom = TRUE
  /\ showAllDots = TRUE
  /\ searchTerm = <<>>
  /\ dictStatus = EmptyObject
  /\ correctList = <<>>
  /\ reviewList = <<>>
  /\ mistakeCount = 0
  /\ localStorage =
       savedAll(EmptyStorage, mode, autoNext, TRUE, EmptyObject, <<>>, <<>>, 0)
  /\ timers = <<>>
  /\ crashed = FALSE
  /\ lastAction = "csvLoaded"
  /\ actionCount = 0

EvalNext == SubmitForm

EvalSpec == EvalInit /\ [][EvalNext]_vars

\* ------------------------------------------------ dictionary filter alone
\* The dictionary shown for every search text of at most MaxInputLen
\* characters over the whole pool, a row of it being clicked.
SearchAlphabet == {"A", "a", "B", "b", "0", "1", " "}

SearchTexts == UNION {[1..n -> SearchAlphabet] : n \in 0..MaxInputLen}

FilterInit ==
  /\ loading = FALSE
  /\ areaCodes = EntryPool
  /\ appSection = "DICTIONARY"
  /\ mode = "nameToCode"
  /\ currentQuestion \in Range(EntryPool)
  /\ userInput = <<>>
  /\ feedback = Feedback(MsgNone, <<>>)
  /\ autoNext = TRUE
  /\ shouldZoom = TRUE
  /\ showAllDots = TRUE
  /\ searchTerm \in SearchTexts
  /\ dictStatus = EmptyObject
  /\ correctList = <<>>
  /\ reviewList = <<>>
  /\ mistakeCount = 0
  /\ localStorage =
       savedAll(EmptyStorage, mode, autoNext, TRUE, EmptyObject, <<>>, <<>>, 0)
  /\ timers = <<>>
  /\ crashed = FALSE
  /\ lastAction = "setSearchTerm"
  /\ actionCount = 0

FilterNext == JumpToLocation

FilterSpec == FilterInit /\ [][FilterNext]_vars

\* --------------------------------------------- a learner who always succeeds
\* A page opened on the progress of an earlier session with Auto-Next on.  The
\* learner types, submits only texts that are judged correct, and submits
\* only when no callback is pending; nothing else is done.  Events are not
\* counted here.
MasteredLists ==
  {list \in UNION {[1..n -> CodesOf(uniqueCodes)] : n \in 0..NumEntries} :
     \A i, j \in 1..Len(list) : list[i] = list[j] => i = j}

LiveStorages ==
  {savedAll(EmptyStorage, m, TRUE, TRUE, EmptyObject, list, <<>>, 0) :
     m \in Modes, list \in MasteredLists}

LiveInit ==
  \E ls \in LiveStorages :
    /\ loading = TRUE
    /\ areaCodes = <<>>
    /\ appSection = "GAME"
    /\ mode = loadMode(ls)
    /\ currentQuestion = Null
    /\ userInput = <<>>
    /\ feedback = Feedback(MsgNone, <<>>)
    /\ autoNext = loadAutoNext(ls)
    /\ shouldZoom = FALSE
    /\ showAllDots = loadShowAllDots(ls)
    /\ searchTerm = <<>>
    /\ dictStatus = loadDictStatus(ls)
    /\ correctList = loadCorrectList(ls)
    /\ reviewList = loadReviewList(ls)
    /\ mistakeCount = loadMistakeCount(ls)
    /\ localStorage = mountStorage(ls)
    /\ timers = <<>>
    /\ crashed = startupThrows(ls)
    /\ lastAction = "mount"
    /\ actionCount = 0

\* what the learner types: the short texts of the quiz model and the code of
\* any catalog entry
LiveInputs ==
  TypedInputs \cup {removeSpaces(uniqueCodes[i].code) : i \in 1..NumEntries}

LiveCsvLoaded == csvComplete /\ UNCHANGED actionCount

LiveType == changeUserInput(LiveInputs) /\ UNCHANGED actionCount

\* the learner types a text that will be judged correct
LiveTypeCorrect ==
  LiveType /\ isCorrect(mode, currentQuestion, userInput')

\* a submission judged correct, made while no callback is pending
LiveSubmit ==
  /\ Mounted
  /\ ~loading
  /\ appSection = "GAME"
  /\ currentQuestion # Null
  /\ autoNext
  /\ timers = <<>>
  /\ isCorrect(mode, currentQuestion, userInput)
  /\ handleSubmit
  /\ UNCHANGED actionCount

LiveAdvance == timerFires /\ UNCHANGED actionCount

LiveNext ==
  \/ LiveCsvLoaded
  \/ LiveType
  \/ LiveSubmit
  \/ LiveAdvance

\* the CSV arrives and a scheduled callback fires; the learner keeps typing
\* a right answer and does submit it
LiveFairness ==
  /\ WF_vars(LiveCsvLoaded)
  /\ WF_vars(LiveAdvance)
  /\ WF_vars(LiveTypeCorrect)
  /\ SF_vars(LiveSubmit)

LiveSpec == LiveInit /\ [][LiveNext]_vars /\ LiveFairness

\* -------------------------------------- the handler called without the form
\* submit(text) reaching handleSubmit whether or not the quiz form is shown
SubmitDirect ==
  /\ Counted
  /\ Mounted
  /\ handleSubmit

DirectNext == Next \/ SubmitDirect

DirectSpec == Init /\ [][DirectNext]_vars

\* ------------------------------------------- startup from a damaged store
StartupNext == CorruptStorage \/ Reload \/ CsvLoaded

StartupSpec == Init /\ [][StartupNext]_vars

\* ------------------------------------------------------------- properties
\* a selection made without an explicit entry has just run
SelectionStep ==
  \/ lastAction' \in {"csvLoaded", "skip", "autoAdvance", "resetProgress"}
  \/ /\ lastAction' = "setAppSection"
     /\ appSection # "GAME"
     /\ appSection' = "GAME"
     /\ currentQuestion = Null

\* C1: every selection made without an explicit entry (initial selection,
\* Skip, the auto-advance callback, the selection inside resetProgress) that
\* sets currentQuestion to an entry picks an entry whose code is not in
\* MasteredSet at that moment.
C1_SelectionAvoidsMastered ==
  [][SelectionStep /\ currentQuestion' # Null
       => currentQuestion'.code \notin Range(correctList')]_vars

\* the learner actions that come between a submission and its callback
InterveningActions ==
  {"skip", "revealAnswer", "mapClick", "jumpToLocation", "resetProgress"}

\* C2: a scheduled auto-advance callback is invalidated by any other learner
\* action performed before it fires: a callback that fires after a skip,
\* reveal, map selection or reset does not replace the currentQuestion that
\* resulted from that action, and at most one callback is ever pending.
C2_StaleCallbackInvalidated ==
  [][/\ Len(timers') <= 1
     /\ (lastAction' = "autoAdvance" /\ lastAction \in InterveningActions)
          => currentQuestion' = currentQuestion]_vars

\* C3: a selection without an explicit entry that runs while every catalog
\* code is in MasteredSet yields None.
C3_AllMasteredYieldsNone ==
  [][SelectionStep /\ CodesOf(areaCodes') \subseteq Range(correctList')
       => currentQuestion' = Null]_vars

\* C4: after a confirmed resetProgress on a non-empty catalog, currentQuestion
\* is a catalog entry, whatever MasteredSet was before the reset.
C4_ResetSelectsQuestion ==
  lastAction = "resetProgress" /\ Len(areaCodes) > 0
    => currentQuestion \in Range(areaCodes)

\* normalization as the specification states it: all whitespace stripped,
\* lower-cased
Normalized(s) == toLowerCase(SelectSeq(s, LAMBDA c : c \notin Whitespace))

JudgedCorrect == feedback.msg \in {MsgCorrect, MsgCorrectSelect}

\* C5: in direction codeToPlace a submission is judged correct iff the
\* normalized place name contains the normalized input as a substring.
C5_PlaceSubstringJudgement ==
  lastAction = "handleSubmit" /\ mode = "codeToName"
    => (JudgedCorrect
          <=> stringIncludes(Normalized(currentQuestion.place),
                             Normalized(userInput)))

\* C6: in direction placeToCode a submission is judged correct iff the
\* normalized input, with "0" prepended when it does not start with "0", is
\* exactly the normalized code of the question.
C6_CodeLeadingZeroJudgement ==
  lastAction = "handleSubmit" /\ mode = "nameToCode"
    => (JudgedCorrect
          <=> LET typed == Normalized(userInput)
                  padded == IF typed # <<>> /\ typed[1] = "0" THEN typed
                            ELSE <<"0">> \o typed
              IN padded = Normalized(currentQuestion.code))

\* "1" is judged correct for code "01"
C6_Witness ==
  /\ lastAction = "handleSubmit"
  /\ mode = "nameToCode"
  /\ userInput = <<"1">>
  /\ currentQuestion.code = <<"0", "1">>
  /\ JudgedCorrect

\* C7: a confirmed resetProgress sets MasteredSet and ReviewSet to empty and
\* MistakeCounter to 0, and leaves DictionaryStatus unchanged for every code.
C7_ResetClearsProgressOnly ==
  [][lastAction' = "resetProgress"
       => /\ correctList' = <<>>
          /\ reviewList' = <<>>
          /\ mistakeCount' = 0
          /\ dictStatus' = dictStatus]_vars

\* a reset that ran after a correct answer, with a dictionary status set
C7_Witness ==
  /\ lastAction = "resetProgress"
  /\ timers # <<>>
  /\ \E c \in DOMAIN dictStatus : dictStatus[c] # 0

\* C8: after every completed action the persisted values, read back with the
\* startup load rules, equal the in-memory progress and settings.
C8_WriteThrough ==
  /\ loadCorrectList(localStorage) = correctList
  /\ loadReviewList(localStorage) = reviewList
  /\ loadMistakeCount(localStorage) = mistakeCount
  /\ loadDictStatus(localStorage) = dictStatus
  /\ loadMode(localStorage) = mode
  /\ loadAutoNext(localStorage) = autoNext
  /\ loadShowAllDots(localStorage) = showAllDots

\* right after a reset that left the mistakes key removed, with a status set
C8_Witness ==
  /\ lastAction = "resetProgress"
  /\ ~localStorage[KeyMistakes].present
  /\ localStorage[KeyMastered].present
  /\ DOMAIN dictStatus # {}

\* C9: an incorrect submission increments MistakeCounter by exactly 1, leaves
\* the question's code in ReviewSet, and changes neither currentQuestion nor
\* MasteredSet.
C9_IncorrectSubmission ==
  [][lastAction' = "handleSubmit" /\ feedback'.msg = MsgIncorrect
       => /\ mistakeCount' = mistakeCount + 1
          /\ currentQuestion.code \in Range(reviewList')
          /\ currentQuestion' = currentQuestion
          /\ currentQuestion' # Null
          /\ correctList' = correctList]_vars

\* a second failed try on the same question
C9_Witness ==
  /\ lastAction = "handleSubmit"
  /\ feedback.msg = MsgIncorrect
  /\ mistakeCount = 2
  /\ reviewList = <<currentQuestion.code>>

\* C10: revealAnswer increments MistakeCounter by exactly 1, adds the code to
\* ReviewSet, changes neither currentQuestion nor MasteredSet, and reveals the
\* code in placeToCode direction and the place name otherwise.
C10_Reveal ==
  [][lastAction' = "revealAnswer"
       => /\ mistakeCount' = mistakeCount + 1
          /\ Range(reviewList') = Range(reviewList) \cup {currentQuestion.code}
          /\ Len(reviewList') = Cardinality(Range(reviewList'))
          /\ currentQuestion' = currentQuestion
          /\ correctList' = correctList
          /\ feedback'.msg = MsgAnswerIs
          /\ feedback'.arg = IF mode = "nameToCode" THEN currentQuestion.code
                             ELSE currentQuestion.place]_vars

\* a place name revealed for a mastered question
C10_Witness ==
  /\ lastAction = "revealAnswer"
  /\ mode = "codeToName"
  /\ currentQuestion # Null
  /\ feedback.arg = currentQuestion.place
  /\ currentQuestion.code \in Range(correctList)
  /\ currentQuestion.code \in Range(reviewList)

\* a submission of the active question has just been judged correct
CorrectSubmissionStep ==
  /\ lastAction' = "handleSubmit"
  /\ currentQuestion # Null
  /\ feedback'.msg \in {MsgCorrect, MsgCorrectSelect}

\* a submission of the active question has just been judged incorrect
IncorrectSubmissionStep ==
  /\ lastAction' = "handleSubmit"
  /\ currentQuestion # Null
  /\ feedback'.msg = MsgIncorrect

\* C11: a code enters MasteredSet only as the current question of a
\* submission judged correct; no other operation adds a code, so from empty
\* progress every mastered code was answered correctly since the last reset.
C11_MasteredOnlyByCorrectAnswer ==
  [][\A c \in Range(correctList') \ Range(correctList) :
       CorrectSubmissionStep /\ c = currentQuestion.code]_vars

\* both entries mastered, the second one just now
C11_Witness ==
  /\ lastAction = "handleSubmit"
  /\ JudgedCorrect
  /\ Len(correctList) = 2
  /\ correctList[2] = currentQuestion.code
  /\ reviewList # <<>>

\* C12: no operation other than a confirmed resetProgress removes a code from
\* MasteredSet or ReviewSet or lowers MistakeCounter, and MistakeCounter moves
\* only by +1 on an incorrect submission or a reveal and to 0 on a reset, so
\* it counts the failures since startup or the last reset.
C12_ProgressMonotonic ==
  [][/\ lastAction' # "resetProgress"
          => /\ Range(correctList) \subseteq Range(correctList')
             /\ Range(reviewList) \subseteq Range(reviewList')
             /\ mistakeCount' >= mistakeCount
     /\ mistakeCount' =
          IF lastAction' = "resetProgress" THEN 0
          ELSE IF lastAction' = "revealAnswer" \/ IncorrectSubmissionStep
               THEN mistakeCount + 1
               ELSE mistakeCount]_vars

\* a reveal after an incorrect answer on the other entry
C12_Witness ==
  /\ lastAction = "revealAnswer"
  /\ mistakeCount = 2
  /\ Len(reviewList) = 2
  /\ reviewList[2] = currentQuestion.code

NoDuplicates(list) == Cardinality(Range(list)) = Len(list)

\* C13: MasteredSet and ReviewSet hold every code at most once; a correct
\* answer for an already-mastered code leaves MasteredSet and MistakeCounter
\* unchanged, a failure on a code already in ReviewSet leaves ReviewSet
\* unchanged.
C13_IdempotentInsertion ==
  [][/\ NoDuplicates(correctList')
     /\ NoDuplicates(reviewList')
     /\ CorrectSubmissionStep /\ currentQuestion.code \in Range(correctList)
          => correctList' = correctList /\ mistakeCount' = mistakeCount
     /\ (IncorrectSubmissionStep \/ lastAction' = "revealAnswer")
          /\ currentQuestion.code \in Range(reviewList)
          => reviewList' = reviewList]_vars

\* a mastered code answered correctly again, after two failures on it
C13_Witness ==
  /\ lastAction = "handleSubmit"
  /\ JudgedCorrect
  /\ Len(timers) = 2
  /\ timers[2] = correctList
  /\ correctList = <<currentQuestion.code>>
  /\ reviewList = <<currentQuestion.code>>
  /\ mistakeCount = 2

\* the text stored under a key is not a value the engine could have saved
Corrupt(key) ==
  /\ localStorage[key].present
  /\ LET text == localStorage[key].text
     IN CASE key = KeyMode -> text \notin {<<m>> : m \in Modes}
          [] key \in {KeyAutoNext, KeyShowDots} ->
               text \notin {TextTrue, TextFalse}
          [] key \in {KeyMastered, KeyReview} -> ~isArrayText(text)
          [] key = KeyDictStatus -> ~isObjectText(text)
          [] key = KeyMistakes -> ~isNumberText(text)

\* C14: a corrupt persisted value under any progress or settings key is
\* treated as absent at startup: the engine starts, with the documented
\* default for that key.
C14_CorruptTreatedAsAbsent ==
  [][lastAction' = "mount"
       => /\ ~crashed'
          /\ Corrupt(KeyMastered) => correctList' = <<>>
          /\ Corrupt(KeyReview) => reviewList' = <<>>
          /\ Corrupt(KeyMistakes) => mistakeCount' = 0
          /\ Corrupt(KeyDictStatus) => dictStatus' = EmptyObject
          /\ Corrupt(KeyMode) => mode' = "nameToCode"
          /\ Corrupt(KeyAutoNext) => autoNext' = TRUE
          /\ Corrupt(KeyShowDots) => showAllDots' = TRUE]_vars

\* DictionaryStatus of a code, an absent code counting as 0
StatusOrZero(obj, code) == IF code \in DOMAIN obj THEN obj[code] ELSE 0

\* C15: every cycleStatus moves the status of its code to (value + 1) mod 3,
\* two more applications bring it back to the value before the first, and
\* DictionaryStatus values stay within {0, 1, 2}.
C15_CycleOfThree ==
  [][/\ \A c \in DOMAIN dictStatus' : dictStatus'[c] \in {0, 1, 2}
     /\ lastAction' = "cycleStatus"
          => \E code \in CodesOf(areaCodes) :
               /\ StatusOrZero(dictStatus', code)
                    = (StatusOrZero(dictStatus, code) + 1) % 3
               /\ StatusOrZero(cycled(cycled(dictStatus', code), code), code)
                    = StatusOrZero(dictStatus, code)]_vars

\* a status that has gone round: stored, and back at 0
C15_Witness ==
  /\ lastAction = "cycleStatus"
  /\ \E c \in DOMAIN dictStatus : dictStatus[c] = 0

\* C18: cycleStatus changes only DictionaryStatus of the given code: it
\* leaves MasteredSet, ReviewSet, MistakeCounter, currentQuestion and the
\* status of every other code unchanged.
C18_CycleStatusFrame ==
  [][lastAction' = "cycleStatus"
       => /\ correctList' = correctList
          /\ reviewList' = reviewList
          /\ mistakeCount' = mistakeCount
          /\ currentQuestion' = currentQuestion
          /\ \E code \in CodesOf(areaCodes) :
               \A other \in CodesOf(areaCodes) \ {code} :
                 /\ other \in DOMAIN dictStatus' <=> other \in DOMAIN dictStatus
                 /\ StatusOrZero(dictStatus', other)
                      = StatusOrZero(dictStatus, other)]_vars

\* both codes have a status, with quiz progress and an active question
C18_Witness ==
  /\ lastAction = "cycleStatus"
  /\ Cardinality(DOMAIN dictStatus) = 2
  /\ correctList # <<>>
  /\ mistakeCount > 0
  /\ currentQuestion # Null

\* C16: submitting while there is no active question is a no-op: MasteredSet,
\* ReviewSet, MistakeCounter and currentQuestion are unchanged and no
\* auto-advance is scheduled.
C16_SubmitWithoutQuestion ==
  [][lastAction' = "handleSubmit" /\ currentQuestion = Null
       => /\ correctList' = correctList
          /\ reviewList' = reviewList
          /\ mistakeCount' = mistakeCount
          /\ currentQuestion' = Null
          /\ timers' = timers]_vars

\* a submission in the all-mastered state
C16_Witness ==
  /\ lastAction = "handleSubmit"
  /\ currentQuestion = Null
  /\ ~loading
  /\ CodesOf(areaCodes) \subseteq Range(correctList)
  /\ feedback.msg = MsgMasteredAll

\* an entry matches a query iff its lower-cased place contains the
\* lower-cased query or its whitespace-stripped code contains the raw query
MatchesQuery(entry, query) ==
  \/ stringIncludes(toLowerCase(entry.place), toLowerCase(query))
  \/ stringIncludes(SelectSeq(entry.code, LAMBDA c : c \notin Whitespace),
                    query)

\* C17: filtering by a case-varied query returns the same entries as
\* filtering by its lower-case form, the entries returned being exactly the
\* matching ones; a row clicked in the list is a matching entry.
C17_FilterCaseInsensitive ==
  /\ filteredDictionary(areaCodes, searchTerm)
       = filteredDictionary(areaCodes, toLowerCase(searchTerm))
  /\ filteredDictionary(areaCodes, searchTerm)
       = SelectSeq(areaCodes, LAMBDA entry : MatchesQuery(entry, searchTerm))
  /\ lastAction = "jumpToLocation"
       => MatchesQuery(currentQuestion, toLowerCase(searchTerm))

\* an upper-case query, and a clicked row whose place has the letter in
\* lower case only
C17_Witness ==
  /\ lastAction = "jumpToLocation"
  /\ searchTerm = <<"B">>
  /\ currentQuestion.place = <<"A", " ", "b">>

\* the steps by which the learner selects an entry
LearnerSelections ==
  {"mapClick", "jumpToLocation", "skip", "resetProgress", "mount"}

\* what a submission judged correct does at once: the code is in MasteredSet,
\* the question stays, and one callback is scheduled iff autoNext is on
CorrectSubmissionEffect ==
  [][CorrectSubmissionStep
       => /\ arrayIncludes(correctList', currentQuestion.code)
          /\ currentQuestion' = currentQuestion
          /\ autoNext => /\ Len(timers') = Len(timers) + 1
                         /\ SubSeq(timers', 1, Len(timers)) = timers
          /\ ~autoNext => timers' = timers]_vars

\* C19: a correct submission with autoAdvance off adds the code to
\* MasteredSet and schedules nothing, and from then on currentQuestion stays
\* the answered entry until a step by which the learner selects an entry;
\* with autoAdvance on the submission schedules exactly one deferred
\* selection.
C19_CorrectSubmissionAdvance ==
  /\ CorrectSubmissionEffect
  /\ [][feedback.msg = MsgCorrectSelect /\ currentQuestion' # currentQuestion
          => lastAction' \in LearnerSelections]_vars

\* C20: a map click makes the clicked entry the current question, mastered
\* or not, sets shouldZoom to false and leaves MasteredSet, ReviewSet and
\* MistakeCounter alone; a selection without an explicit entry that yields
\* an entry sets shouldZoom to true.
C20_ExplicitSelection ==
  [][/\ lastAction' = "mapClick"
          => /\ currentQuestion' \in Range(areaCodes)
             /\ shouldZoom' = FALSE
             /\ correctList' = correctList
             /\ reviewList' = reviewList
             /\ mistakeCount' = mistakeCount
     /\ (SelectionStep /\ currentQuestion' # Null)
          => shouldZoom' = TRUE]_vars

\* a mastered entry has just been clicked on the map while the camera
\* animation was requested by the selection before
C20_Witness ==
  /\ lastAction = "mapClick"
  /\ arrayIncludes(correctList, currentQuestion.code)
  /\ ~shouldZoom
  /\ reviewList # <<>>
  /\ mistakeCount > 0

\* the quiz is over: every catalog code is mastered and no question is
\* active
AllMastered ==
  /\ ~loading
  /\ Len(areaCodes) > 0
  /\ Range(correctList) = CodesOf(areaCodes)
  /\ currentQuestion = Null

\* C21: with a non-empty catalog and Auto-Next on, a learner whose every
\* submission is judged correct, each callback firing before the next
\* submission, reaches after finitely many submissions the state where
\* MasteredSet is the set of catalog codes and currentQuestion is None, and
\* stays there; neither Skip nor a map click is used.
C21_EventuallyAllMastered == <>[]AllMastered

\* the last callback has found nothing pending, after the learner mastered
\* every entry in this session
C21_Witness ==
  /\ AllMastered
  /\ lastAction = "autoAdvance"
  /\ feedback.msg = MsgMasteredAll
  /\ localStorage[KeyMastered] = Item(stringifyArray(correctList))
  /\ Len(correctList) = NumEntries

====
